---- MODULE Spec2Model ----
(***************************************************************************)
(* Model of the dispatch-and-registry subsystem of the MCP gateway:        *)
(* ServerRegistryService (server-registry.service.ts), the BaziServer      *)
(* backend it fronts (app.controller.ts, second half) and the periodic     *)
(* health check.  JavaScript runs one synchronous segment at a time; an    *)
(* `await` ends a segment.  Every action below is one such segment.        *)
(***************************************************************************)
EXTENDS Bags, FiniteSets, Integers, Naturals, Sequences, TLC

(* ------------------------------ bounds -------------------------------- *)
\* caps on the requests all backends together accept (the sum of their
\* totalRequests) and on the executeTool calls in flight at the same time,
\* where calls run concurrently
MaxRequests == 3
MaxInFlight == 2
\* the cap on accepted requests and on health probes in flight at the same
\* time, where calls and probes of two services interleave
HealthMaxRequests == 2
MaxProbes == 2
MaxCursor == 4

\* the cap on health probes in flight where the probes of one backend never
\* return and so pile up tick after tick
HangMaxProbes == 5

\* the service names callers use, and the backend objects (IMCPServer
\* instances) they register under them
Names == {"svc-a", "svc-b"}
Handles == {"h1", "h2"}

(* ------------------------- values and messages ------------------------ *)
\* an optional field that is absent (`undefined`); a present one is <<v>>
None == <<>>
Some(v) == <<v>>

\* a tool of the BaziServer tools array, and a tool name that is not in it
Tools == {"getBaziDetail"}
\* request bodies: one that validateBaziParams accepts, one it rejects
ParamInputs == {"valid", "invalid"}
\* the <<toolName, params>> requests callers send; the body of a request for
\* an unknown tool is never looked at
RequestInputs ==
  {<<t, p>> : t \in Tools, p \in ParamInputs} \cup {<<"noSuchTool", "valid">>}
\* wall-clock durations Date.now() - startTime can take
Durations == {0}

MsgToolMissing == "tool does not exist in the bazi service"
MsgBadParams == "birth date must not be empty"
MsgUnavailable == "service currently unavailable"
MsgProbeFailed == "health check failed"
MsgProbeRaised == "probe raised"

(* ------------------------------- state -------------------------------- *)
VARIABLES
  servers,              \* ServerRegistryService.servers: Map name -> IMCPServer
  serverStatuses,       \* ServerRegistryService.serverStatuses: Map name -> ServerStatus
  healthCheckInterval,  \* TRUE while the setInterval timer is armed
  hStatus,              \* BaziServer.status of every backend object
  hActiveRequests,      \* BaziServer.activeRequests (private counter)
  hTotalRequests,       \* BaziServer.totalRequests (private counter)
  calls,                \* bag of ServerRegistryService.executeTool frames suspended at `await`
  probes,               \* bag of performHealthCheck map callbacks suspended at `await`
  strategy,             \* LoadBalancerService.strategy
  roundRobinIndex,      \* LoadBalancerService.roundRobinIndex
  requests,             \* bag of GatewayController.executeTool frames suspended at `await`
  response,             \* the HTTP response most recently sent, with the request it answers
  env,                  \* process.env as the gateway reads it: API_KEY and NODE_ENV
  last                  \* what the most recent segment did and returned to its caller

vars == <<servers, serverStatuses, healthCheckInterval, hStatus,
          hActiveRequests, hTotalRequests, calls, probes, strategy,
          roundRobinIndex, requests, response, env, last>>

registryVars == <<servers, serverStatuses>>
timerVars == <<healthCheckInterval>>
backendVars == <<hStatus, hActiveRequests, hTotalRequests>>
balancerVars == <<strategy, roundRobinIndex>>
httpVars == <<requests, response>>
envVars == <<env>>

(* --------------------- JavaScript Map, insertion-ordered -------------- *)
\* a Map is a sequence of <<key, value>> entries in insertion order
MapHas(m, k) == \E i \in 1..Len(m) : m[i][1] = k

MapIndex(m, k) == CHOOSE i \in 1..Len(m) : m[i][1] = k

MapGet(m, k) == m[MapIndex(m, k)][2]

MapSet(m, k, v) ==
  IF MapHas(m, k) THEN [m EXCEPT ![MapIndex(m, k)] = <<k, v>>]
  ELSE Append(m, <<k, v>>)

MapDelete(m, k) == SelectSeq(m, LAMBDA e : e[1] # k)

MapKeys(m) == [i \in 1..Len(m) |-> m[i][1]]

MapKeySet(m) == {m[i][1] : i \in 1..Len(m)}

(* ------------------------------ ServerStatus -------------------------- *)
Load(active, total) == [activeRequests |-> active, totalRequests |-> total]

\* BaziServer.status as the field initialiser sets it
InitialStatus ==
  [online |-> TRUE, error |-> None, responseTime |-> None, load |-> Load(0, 0)]

\* BaziServer.updateStatus: the status object is rebuilt from the counters
updateStatus(active, total) ==
  [online |-> TRUE, error |-> None, responseTime |-> None,
   load |-> Load(active, total)]

\* BaziServer.getStatus: a shallow copy of the status field
getStatus(h) == hStatus[h]

(* ------------------------------ registry reads ------------------------ *)
\* a listing that keeps only the names whose backend says online
getOnlineServerNames ==
  SelectSeq(MapKeys(servers), LAMBDA n : hStatus[MapGet(servers, n)].online)

\* ServerRegistryService.getServerNames
getServerNames == MapKeys(servers)

\* ServerRegistryService.hasServer
hasServer(name) == MapHas(servers, name)

\* ServerRegistryService.getServerStatus: the cached status, or null
getServerStatus(name) ==
  IF MapHas(serverStatuses, name) THEN Some(MapGet(serverStatuses, name)) ELSE None

\* ServerRegistryService.updateServerStatus: an unconditional Map.set
updateServerStatus(name, status) == MapSet(serverStatuses, name, status)

\* the event a segment leaves behind: operation, service name, outcome and
\* detail.  "executeTool" is the segment a call starts with, up to its first
\* await; "executeToolDone" is the segment that settles the call's promise.
\* wasOnline is the cached online flag the call found on entry.
Event(op, name, outcome, detail, wasOnline) ==
  [op |-> op, name |-> name, outcome |-> outcome, detail |-> detail,
   wasOnline |-> wasOnline]

\* the cached status says online (what statusOf(name) would report)
cachedOnline(name) ==
  /\ MapHas(serverStatuses, name)
  /\ MapGet(serverStatuses, name).online

InFlight(bag) == BagCardinality(bag)

(* ------------------------------ environment -------------------------- *)
\* the environments a process can be started in: API_KEY unset or set, and
\* NODE_ENV (API_SECRET is left unset)
Envs == [apiKey : {None, Some("key-1")}, nodeEnv : {"production", "development"}]

\* no API_KEY, NODE_ENV=production
DefaultEnv == [apiKey |-> None, nodeEnv |-> "production"]

(* ------------------------------- Init --------------------------------- *)
\* the state after Nest has built the providers and run onModuleInit: both
\* maps empty, the health-check timer armed, every backend freshly constructed
Init ==
  /\ servers = <<>>
  /\ serverStatuses = <<>>
  /\ healthCheckInterval = TRUE
  /\ hStatus = [h \in Handles |-> InitialStatus]
  /\ hActiveRequests = [h \in Handles |-> 0]
  /\ hTotalRequests = [h \in Handles |-> 0]
  /\ calls = EmptyBag
  /\ probes = EmptyBag
  /\ strategy = "round_robin"
  /\ roundRobinIndex = 0
  /\ requests = EmptyBag
  /\ response = None
  /\ env = DefaultEnv
  /\ last = Event("construct", "", "ok", <<>>, FALSE)

(* ------------------------- register / unregister ---------------------- *)
\* an unregister that also drops the calls in flight on the name
unregisterAbortsCalls(name) ==
  /\ IF MapHas(servers, name)
       THEN /\ servers' = MapDelete(servers, name)
            /\ serverStatuses' = MapDelete(serverStatuses, name)
            /\ last' = Event("unregister", name, "removed", <<>>, FALSE)
       ELSE /\ UNCHANGED registryVars
            /\ last' = Event("unregister", name, "absent", <<>>, FALSE)
  /\ calls' = [f \in {g \in DOMAIN calls : g.serverName # name} |-> calls[f]]
  /\ UNCHANGED <<envVars, balancerVars, httpVars, timerVars, backendVars, probes>>

\* an unregister that clears both maps
unregisterClearsAll(name) ==
  /\ IF MapHas(servers, name)
       THEN /\ servers' = <<>>
            /\ serverStatuses' = <<>>
            /\ last' = Event("unregister", name, "removed", <<>>, FALSE)
       ELSE /\ UNCHANGED registryVars
            /\ last' = Event("unregister", name, "absent", <<>>, FALSE)
  /\ UNCHANGED <<envVars, balancerVars, httpVars, timerVars, backendVars, calls, probes>>

\* a register that refuses a name that is already bound
registerOnce(name, server) ==
  /\ IF MapHas(servers, name)
       THEN UNCHANGED registryVars
       ELSE /\ servers' = MapSet(servers, name, server)
            /\ serverStatuses' = MapSet(serverStatuses, name, getStatus(server))
  /\ last' = Event("register", name, "ok",
                   IF MapHas(servers, name) THEN Some(MapGet(servers, name)) ELSE None,
                   FALSE)
  /\ UNCHANGED <<envVars, balancerVars, httpVars, timerVars, backendVars, calls, probes>>

\* ServerRegistryService.register; the event's detail is the backend that
\* was bound to the name before (the case the code logs a warning for)
register(name, server) ==
  /\ servers' = MapSet(servers, name, server)
  /\ serverStatuses' = MapSet(serverStatuses, name, getStatus(server))
  /\ last' = Event("register", name, "ok",
                   IF MapHas(servers, name) THEN Some(MapGet(servers, name)) ELSE None,
                   FALSE)
  /\ UNCHANGED <<envVars, balancerVars, httpVars, timerVars, backendVars, calls, probes>>

\* unregister that forgets serverStatuses.delete
unregisterKeepsStatus(name) ==
  /\ IF MapHas(servers, name)
       THEN /\ servers' = MapDelete(servers, name)
            /\ last' = Event("unregister", name, "removed", <<>>, FALSE)
       ELSE /\ UNCHANGED servers
            /\ last' = Event("unregister", name, "absent", <<>>, FALSE)
  /\ UNCHANGED <<envVars, balancerVars, httpVars, serverStatuses, timerVars, backendVars, calls, probes>>

\* ServerRegistryService.unregister
unregister(name) ==
  /\ IF MapHas(servers, name)
       THEN /\ servers' = MapDelete(servers, name)
            /\ serverStatuses' = MapDelete(serverStatuses, name)
            /\ last' = Event("unregister", name, "removed", <<>>, FALSE)
       ELSE /\ UNCHANGED registryVars
            /\ last' = Event("unregister", name, "absent", <<>>, FALSE)
  /\ UNCHANGED <<envVars, balancerVars, httpVars, timerVars, backendVars, calls, probes>>

(* ------------------------------ executeTool --------------------------- *)
\* a suspended ServerRegistryService.executeTool frame: its locals, and where
\* the backend promise it awaits stands
Frame(name, server, status, params, phase, error, wasOnline) ==
  [serverName |-> name, server |-> server, status |-> status, params |-> params,
   phase |-> phase, error |-> error, wasOnline |-> wasOnline]

AddTo(bag, x) == bag (+) SetToBag({x})

RemoveFrom(bag, x) == bag (-) SetToBag({x})

\* requests all backends have accepted so far
RequestsAccepted ==
  LET RECURSIVE Sum(_)
      Sum(S) == IF S = {} THEN 0
                ELSE LET h == CHOOSE x \in S : TRUE
                     IN hTotalRequests[h] + Sum(S \ {h})
  IN Sum(Handles)

\* ServerRegistryService.executeTool, getServer throws: the name is unknown.
\* The throw is outside the try block, so the catch does not run.
executeToolNotFound(name) ==
  /\ ~MapHas(servers, name)
  /\ last' = Event("executeTool", name, "ServiceNotFound", getServerNames,
                   cachedOnline(name))
  /\ UNCHANGED <<envVars, balancerVars, httpVars, registryVars, timerVars, backendVars, calls, probes>>

\* a catch block that records the error but forgets online: false
catchStatusKeepsOnline(server, message) ==
  [getStatus(server) EXCEPT !.error = Some(message)]

\* what the catch block of ServerRegistryService.executeTool stores
catchStatus(server, message) ==
  [getStatus(server) EXCEPT !.online = FALSE, !.error = Some(message)]

\* ServerRegistryService.executeTool, the backend's own status is offline:
\* the throw inside the try block is caught in the same segment.
executeToolOffline(name) ==
  /\ MapHas(servers, name)
  /\ LET server == MapGet(servers, name)
     IN /\ ~getStatus(server).online
        /\ serverStatuses' =
             updateServerStatus(name, catchStatus(server, MsgUnavailable))
  /\ last' = Event("executeTool", name, "failed", <<MsgUnavailable>>,
                   cachedOnline(name))
  /\ UNCHANGED <<envVars, balancerVars, servers, timerVars, backendVars, calls, probes>>

\* activeRequests-- at the end of the try block instead of in finally
releaseOnSuccessOnly(active, resolved) == IF resolved THEN active - 1 ELSE active

\* the finally block of BaziServer.executeTool: activeRequests-- runs whether
\* the try block returned (resolved) or threw
releaseRequest(active, resolved) == active - 1

\* ServerRegistryService.executeTool up to `await server.executeTool(...)`,
\* with the synchronous prefix of BaziServer.executeTool: both counters are
\* incremented; an unknown tool throws at once and runs the finally block.
executeToolInvoke(name, toolName, params) ==
  /\ MapHas(servers, name)
  /\ LET server == MapGet(servers, name)
         status == getStatus(server)
         total == hTotalRequests[server] + 1
         active == hActiveRequests[server] + 1
     IN /\ status.online
        /\ hTotalRequests' = [hTotalRequests EXCEPT ![server] = total]
        /\ IF toolName \in Tools
             THEN /\ hActiveRequests' = [hActiveRequests EXCEPT ![server] = active]
                  /\ UNCHANGED hStatus
                  /\ calls' = AddTo(calls, Frame(name, server, status, params,
                                      "running", None, cachedOnline(name)))
             ELSE /\ hActiveRequests' =
                       [hActiveRequests EXCEPT ![server] = releaseRequest(active, FALSE)]
                  /\ hStatus' = [hStatus EXCEPT ![server] =
                                   updateStatus(releaseRequest(active, FALSE), total)]
                  /\ calls' = AddTo(calls, Frame(name, server, status, params,
                                      "rejected", Some(MsgToolMissing),
                                      cachedOnline(name)))
  /\ last' = Event("executeTool", name, "invoked", <<>>, cachedOnline(name))
  /\ UNCHANGED <<envVars, balancerVars, registryVars, timerVars, probes>>

\* BaziServer.executeTool after its await: validateBaziParams has thrown or
\* calculateBazi has returned; the finally block decrements and refreshes.
backendSettle(f) ==
  /\ f.phase = "running"
  /\ LET server == f.server
         active == releaseRequest(hActiveRequests[server], f.params = "valid")
         settled == IF f.params = "valid"
                      THEN [f EXCEPT !.phase = "resolved"]
                      ELSE [f EXCEPT !.phase = "rejected", !.error = Some(MsgBadParams)]
     IN /\ hActiveRequests' = [hActiveRequests EXCEPT ![server] = active]
        /\ hStatus' = [hStatus EXCEPT ![server] = updateStatus(active, hTotalRequests[server])]
        /\ calls' = AddTo(RemoveFrom(calls, f), settled)
  /\ last' = Event("backend", f.serverName, f.params, <<>>, FALSE)
  /\ UNCHANGED <<envVars, balancerVars, httpVars, registryVars, timerVars, hTotalRequests, probes>>

\* ServerRegistryService.executeTool resumed with the backend's result: the
\* status read BEFORE the call is written back with the response time.
executeToolReturn(f) ==
  /\ f.phase = "resolved"
  /\ \E responseTime \in Durations :
       serverStatuses' = updateServerStatus(f.serverName,
                           [f.status EXCEPT !.responseTime = Some(responseTime)])
  /\ calls' = RemoveFrom(calls, f)
  /\ last' = Event("executeToolDone", f.serverName, "ok", <<>>, f.wasOnline)
  /\ UNCHANGED <<envVars, balancerVars, servers, timerVars, backendVars, probes>>

\* ServerRegistryService.executeTool resumed with the backend's failure: the
\* catch block reads the backend's status afresh and stores it as offline.
executeToolCatch(f) ==
  /\ f.phase = "rejected"
  /\ serverStatuses' =
       updateServerStatus(f.serverName, catchStatus(f.server, f.error[1]))
  /\ calls' = RemoveFrom(calls, f)
  /\ last' = Event("executeToolDone", f.serverName, "failed", f.error, f.wasOnline)
  /\ UNCHANGED <<envVars, balancerVars, servers, timerVars, backendVars, probes>>

\* an IMCPServer implementation changes the online flag of its own status
backendStatusChange(h) ==
  /\ hStatus' = [hStatus EXCEPT ![h].online = ~@]
  /\ last' = Event("backendStatus", "", "ok", <<>>, FALSE)
  /\ UNCHANGED <<envVars, balancerVars, httpVars, registryVars, timerVars, hActiveRequests, hTotalRequests,
                 calls, probes>>

(* ------------------------------ health check -------------------------- *)
\* ServerRegistryService.stopHealthCheck (also onModuleDestroy, shutdown)
stopHealthCheck ==
  /\ healthCheckInterval' = FALSE
  /\ last' = Event("stopHealthCheck", "", IF healthCheckInterval THEN "stopped" ELSE "idle",
                   <<>>, FALSE)
  /\ UNCHANGED <<envVars, balancerVars, httpVars, registryVars, backendVars, calls, probes>>

\* a suspended map callback of performHealthCheck, awaiting server.healthCheck()
Probe(name, server) == [serverName |-> name, server |-> server]

\* a fail-fast fan-out: only the first entry of the servers map is probed
ProbesOfFirstOnly(entries) ==
  IF entries = <<>> THEN EmptyBag
  ELSE AddTo(EmptyBag, Probe(Head(entries)[1], Head(entries)[2]))

\* the probes one tick starts: one per entry of the servers map
RECURSIVE ProbesOf(_)
ProbesOf(entries) ==
  IF entries = <<>> THEN EmptyBag
  ELSE AddTo(ProbesOf(Tail(entries)), Probe(Head(entries)[1], Head(entries)[2]))

\* a timer that starts a tick only when the previous tick's probes have all
\* settled
performHealthCheckAfterPrevious ==
  /\ healthCheckInterval
  /\ probes = EmptyBag
  /\ probes' = probes (+) ProbesOf(servers)
  /\ last' = Event("tick", "", "ok", MapKeys(servers), FALSE)
  /\ UNCHANGED <<envVars, balancerVars, httpVars, registryVars, timerVars, backendVars, calls>>

\* one firing of the setInterval timer: performHealthCheck calls
\* server.healthCheck() on every registered server and awaits all of them
performHealthCheck ==
  /\ healthCheckInterval
  /\ probes' = probes (+) ProbesOf(servers)
  /\ last' = Event("tick", "", "ok", MapKeys(servers), FALSE)
  /\ UNCHANGED <<envVars, balancerVars, httpVars, registryVars, timerVars, backendVars, calls>>

\* the outcomes of IMCPServer.healthCheck(): Promise<boolean>
ProbeOutcomes == {"healthy", "unhealthy", "raised"}

\* a probe callback that stores online: true instead of online: isHealthy
probeStatusAlwaysOnline(currentStatus, outcome) ==
  IF outcome = "healthy"
    THEN [currentStatus EXCEPT !.online = TRUE, !.error = None]
  ELSE IF outcome = "unhealthy"
    THEN [currentStatus EXCEPT !.online = TRUE, !.error = Some(MsgProbeFailed)]
  ELSE [currentStatus EXCEPT !.online = FALSE, !.error = Some(MsgProbeRaised)]

\* a probe callback that builds the status afresh instead of spreading the
\* cached one: responseTime and load are lost
probeStatusFresh(currentStatus, outcome) ==
  [online |-> outcome = "healthy",
   error |-> IF outcome = "healthy" THEN None
             ELSE IF outcome = "unhealthy" THEN Some(MsgProbeFailed)
             ELSE Some(MsgProbeRaised),
   responseTime |-> None,
   load |-> Load(0, 0)]

\* the status a settled probe stores over the cached one
probeStatus(currentStatus, outcome) ==
  IF outcome = "healthy"
    THEN [currentStatus EXCEPT !.online = TRUE, !.error = None]
  ELSE IF outcome = "unhealthy"
    THEN [currentStatus EXCEPT !.online = FALSE, !.error = Some(MsgProbeFailed)]
  ELSE [currentStatus EXCEPT !.online = FALSE, !.error = Some(MsgProbeRaised)]

\* a probe callback that drops the outcome: the cached status is not written
probeSettleDiscards(p, outcome) ==
  /\ probes' = RemoveFrom(probes, p)
  /\ last' = Event("probe", p.serverName, outcome, <<>>, FALSE)
  /\ UNCHANGED <<envVars, balancerVars, httpVars, registryVars, timerVars, backendVars, calls>>

\* a probe callback whose raised failure escapes and kills the timer
probeSettleStopsLoop(p, outcome) ==
  /\ IF MapHas(serverStatuses, p.serverName)
       THEN serverStatuses' =
              updateServerStatus(p.serverName,
                probeStatus(MapGet(serverStatuses, p.serverName), outcome))
       ELSE UNCHANGED serverStatuses
  /\ healthCheckInterval' = (healthCheckInterval /\ outcome # "raised")
  /\ probes' = RemoveFrom(probes, p)
  /\ last' = Event("probe", p.serverName, outcome, <<>>, FALSE)
  /\ UNCHANGED <<envVars, balancerVars, httpVars, servers, backendVars, calls>>

\* the map callback of performHealthCheck resumed with the probe's outcome:
\* the cached status is updated only if the name still has one
probeSettle(p, outcome) ==
  /\ IF MapHas(serverStatuses, p.serverName)
       THEN serverStatuses' =
              updateServerStatus(p.serverName,
                probeStatus(MapGet(serverStatuses, p.serverName), outcome))
       ELSE UNCHANGED serverStatuses
  /\ probes' = RemoveFrom(probes, p)
  /\ last' = Event("probe", p.serverName, outcome, <<>>, FALSE)
  /\ UNCHANGED <<envVars, balancerVars, httpVars, servers, timerVars, backendVars, calls>>

(* ------------------------------ load balancer ------------------------ *)
(* LoadBalancerService (LoadBalancer of the express variant has the same    *)
(* methods).  Candidates are IMCPServer objects; the balancer reads each    *)
(* candidate's own getStatus().                                             *)

\* LoadBalancingStrategy
Strategies == {"round_robin", "random", "least_connections"}

\* the candidate arrays callers pass: the backends in some order, no repeats
CandidateLists ==
  {<<>>} \cup {<<h>> : h \in Handles}
         \cup {c \in Handles \X Handles : c[1] # c[2]}

\* values an IMCPServer can report as status.load.activeRequests
LoadLevels == {0, 1, 3}

\* the start of the message getServer throws for an unknown name
MsgNotFound == "MCP service not found"
MsgNoInstances == "no service instance available"
MsgNoneOnline == "no service instance online"

\* an IMCPServer implementation reports another number of active requests
backendLoadChange(h, n) ==
  /\ hStatus[h].load.activeRequests # n
  /\ hStatus' = [hStatus EXCEPT ![h].load.activeRequests = n]
  /\ last' = Event("backendLoad", "", "ok", <<>>, FALSE)
  /\ UNCHANGED <<envVars, balancerVars, httpVars, registryVars, timerVars, hActiveRequests,
                 hTotalRequests, calls, probes>>

\* a balancer that does not filter: every candidate counts as available
allServers(candidates) == candidates

\* servers.filter(server => server.getStatus().online)
availableServers(candidates) ==
  SelectSeq(candidates, LAMBDA server : getStatus(server).online)

\* a cursor that wraps around after two selections
wrapRoundRobinIndex(index) == (index + 1) % 2

\* a cursor that advances by two
skipRoundRobinIndex(index) == index + 2

\* this.roundRobinIndex++
nextRoundRobinIndex(index) == index + 1

\* servers[this.roundRobinIndex % servers.length]
selectRoundRobin(available) == available[(roundRobinIndex % Len(available)) + 1]

\* the reduce callback: the current candidate replaces the least loaded one
\* so far only when its activeRequests is strictly smaller
RECURSIVE reduceLeast(_, _, _)
reduceLeast(available, least, i) ==
  IF i > Len(available) THEN least
  ELSE LET leastConnections == getStatus(least).load.activeRequests
           currentConnections == getStatus(available[i]).load.activeRequests
       IN reduceLeast(available,
                      IF currentConnections < leastConnections
                        THEN available[i] ELSE least,
                      i + 1)

\* a reduce that compares with <=: among equally loaded candidates the last
\* one wins
selectLastLeastConnections(available) ==
  LET active(i) == getStatus(available[i]).load.activeRequests
  IN available[CHOOSE i \in 1..Len(available) :
                 /\ \A j \in 1..Len(available) : active(i) <= active(j)
                 /\ \A j \in (i + 1)..Len(available) : active(j) > active(i)]

\* a reduce without an initial value starts from the first element
selectLeastConnections(available) == reduceLeast(available, available[1], 2)

\* servers[Math.floor(Math.random() * servers.length)]
selectRandom(available) == {available[i] : i \in 1..Len(available)}

\* the results of the selections made back to back on the same candidates
\* under round-robin, the one being made included
selectionsWith(candidates, server) ==
  IF /\ strategy = "round_robin"
     /\ last.op = "selectServer"
     /\ last.outcome = "ok"
     /\ last.detail[1] = candidates
    THEN Append(last.detail[2], server)
    ELSE <<server>>

\* LoadBalancerService.selectServer
selectServer(candidates) ==
  LET available == availableServers(candidates)
  IN /\ IF Len(candidates) = 0
          THEN /\ last' = Event("selectServer", "", "NoAvailableInstance",
                                <<candidates, MsgNoInstances>>, FALSE)
               /\ UNCHANGED roundRobinIndex
        ELSE IF Len(available) = 0
          THEN /\ last' = Event("selectServer", "", "NoAvailableInstance",
                                <<candidates, MsgNoneOnline>>, FALSE)
               /\ UNCHANGED roundRobinIndex
        ELSE IF strategy = "round_robin"
          THEN /\ last' = Event("selectServer", "", "ok",
                                <<candidates,
                                  selectionsWith(candidates,
                                                 selectRoundRobin(available))>>,
                                FALSE)
               /\ roundRobinIndex' = nextRoundRobinIndex(roundRobinIndex)
        ELSE IF strategy = "random"
          THEN /\ \E server \in selectRandom(available) :
                    last' = Event("selectServer", "", "ok",
                                  <<candidates, <<server>>>>, FALSE)
               /\ UNCHANGED roundRobinIndex
        ELSE /\ last' = Event("selectServer", "", "ok",
                              <<candidates,
                                <<selectLeastConnections(available)>>>>, FALSE)
             /\ UNCHANGED roundRobinIndex
     /\ UNCHANGED <<envVars, httpVars, strategy, registryVars, timerVars, backendVars, calls, probes>>

\* a setStrategy that leaves the cursor where it is
setStrategyKeepsCursor(newStrategy) ==
  /\ strategy' = newStrategy
  /\ last' = Event("setStrategy", "", "ok", <<newStrategy>>, FALSE)
  /\ UNCHANGED <<envVars, httpVars, roundRobinIndex, registryVars, timerVars, backendVars, calls,
                 probes>>

\* LoadBalancerService.setStrategy
setStrategy(newStrategy) ==
  /\ strategy' = newStrategy
  /\ roundRobinIndex' = 0
  /\ last' = Event("setStrategy", "", "ok", <<newStrategy>>, FALSE)
  /\ UNCHANGED <<envVars, httpVars, registryVars, timerVars, backendVars, calls, probes>>

(* ------------------------------ HTTP layer --------------------------- *)
(* What GatewayController.executeTool throws or returns, and what the       *)
(* global HttpExceptionFilter (main.ts, useGlobalFilters) puts on the wire. *)

\* the x-request-id header of a request: absent, or a caller's id
RequestIdHeaders == {None, Some("req-1")}

\* a value uuidv4() returns
GeneratedId == "uuid-v4"
\* the filter's fallback request id
UnknownId == "unknown"

MsgNamesEmpty == "service name and tool name must not be empty"
MsgServerOffline == "MCP service currently unavailable"
MsgInternal == "Internal server error"

\* const requestId = requestIdHeader || uuidv4()
requestIdOf(header) == IF header = None THEN GeneratedId ELSE header[1]

\* a request as the controller sees it
Request(serverName, toolName, header) ==
  [serverName |-> serverName, toolName |-> toolName, requestIdHeader |-> header]

\* an HttpException: its status and the response object given to it
HttpException(status, body) == [status |-> status, body |-> body]

\* new BadRequestException({...}) of the name check
InvalidBody(request) ==
  HttpException(400,
    [success |-> FALSE,
     error |-> [code |-> "INVALID_PARAMETERS", message |-> MsgNamesEmpty],
     meta |-> [requestId |-> requestIdOf(request.requestIdHeader)]])

\* new NotFoundException({...}) of the existence check
NotFoundBody(request, names) ==
  HttpException(404,
    [success |-> FALSE,
     error |-> [code |-> "SERVER_NOT_FOUND", message |-> MsgNotFound,
                details |-> names],
     meta |-> [requestId |-> requestIdOf(request.requestIdHeader),
               serverName |-> request.serverName,
               toolName |-> request.toolName]])

\* new ServiceUnavailableException({...}) of the online check
OfflineBody(request, details) ==
  HttpException(503,
    [success |-> FALSE,
     error |-> [code |-> "SERVER_OFFLINE", message |-> MsgServerOffline,
                details |-> details],
     meta |-> [requestId |-> requestIdOf(request.requestIdHeader),
               serverName |-> request.serverName,
               toolName |-> request.toolName]])

\* new InternalServerErrorException({...}) of the controller's catch block
ExecutionBody(request, message) ==
  HttpException(500,
    [success |-> FALSE,
     error |-> [code |-> "EXECUTION_ERROR", message |-> message],
     meta |-> [requestId |-> requestIdOf(request.requestIdHeader),
               serverName |-> request.serverName,
               toolName |-> request.toolName]])

\* the object the controller returns on success; Nest sends it with 200
SuccessResponse(request) ==
  [status |-> 200,
   success |-> TRUE,
   data |-> "result",
   meta |-> [requestId |-> requestIdOf(request.requestIdHeader),
             serverName |-> request.serverName,
             toolName |-> request.toolName]]

\* HttpExceptionFilter.getErrorCodeFromStatus
getErrorCodeFromStatus(status) ==
  CASE status = 400 -> "BAD_REQUEST"
    [] status = 401 -> "UNAUTHORIZED"
    [] status = 403 -> "FORBIDDEN"
    [] status = 404 -> "NOT_FOUND"
    [] status = 429 -> "RATE_LIMIT_EXCEEDED"
    [] status = 500 -> "INTERNAL_ERROR"
    [] status = 503 -> "SERVICE_UNAVAILABLE"
    [] OTHER -> "UNKNOWN_ERROR"

\* HttpExceptionFilter.catch for an HttpException whose response is an
\* object: message and code are read from the top level of that object, the
\* request id from the request header
HttpExceptionFilter(exception, header) ==
  LET responseObj == exception.body
      message == IF "message" \in DOMAIN responseObj THEN responseObj.message
                 ELSE IF "error" \in DOMAIN responseObj THEN responseObj.error
                 ELSE MsgInternal
      code == IF "code" \in DOMAIN responseObj THEN responseObj.code
              ELSE getErrorCodeFromStatus(exception.status)
  IN [status |-> exception.status,
      success |-> FALSE,
      error |-> [code |-> code, message |-> message],
      meta |-> [requestId |-> IF header = None THEN UnknownId ELSE header[1]]]

\* a response on the wire, kept with the request it answers
Sent(request, wire) == [request |-> request, wire |-> wire]

\* the controller throws: the filter turns the exception into the response
Rejected(request, exception) ==
  Sent(request, HttpExceptionFilter(exception, request.requestIdHeader))

(* ------------------------------ dispatcher --------------------------- *)
(* GatewayController.executeTool (and the express route of MCPGateway): the *)
(* checks run in a fixed order in one synchronous segment; a request that   *)
(* passes them enters ServerRegistryService.executeTool in the same segment *)

\* the event a dispatcher segment that rejects a request leaves behind
DispatchEvent(serverName, toolName, outcome, detail) ==
  [op |-> "dispatch", name |-> serverName, tool |-> toolName,
   outcome |-> outcome, detail |-> detail, wasOnline |-> cachedOnline(serverName)]

\* path parameters a caller can send: a name, or the empty string
DispatchNames == Names \cup {""}
DispatchTools == Tools \cup {"noSuchTool", ""}

\* the existence and online checks of the dispatcher both pass for name
dispatchAccepts(name) == hasServer(name) /\ cachedOnline(name)

\* a dispatcher that looks the service up before it validates the names
dispatchInvalidAfterLookup(serverName, toolName) ==
  /\ serverName = "" \/ toolName = ""
  /\ last' = DispatchEvent(serverName, toolName,
                           IF hasServer(serverName) THEN "InvalidRequest"
                           ELSE "ServiceNotFound",
                           IF hasServer(serverName) THEN <<>> ELSE getServerNames)
  /\ UNCHANGED <<envVars, balancerVars, httpVars, registryVars, timerVars, backendVars, calls, probes>>

\* !serverName || !toolName: rejected with INVALID_PARAMETERS
dispatchInvalid(serverName, toolName) ==
  /\ serverName = "" \/ toolName = ""
  /\ last' = DispatchEvent(serverName, toolName, "InvalidRequest", <<>>)
  /\ \E header \in RequestIdHeaders :
       LET request == Request(serverName, toolName, header)
       IN response' = Rejected(request, InvalidBody(request))
  /\ UNCHANGED <<envVars, balancerVars, requests, registryVars, timerVars, backendVars,
                 calls, probes>>

\* a dispatcher that reports the names of the services that are online
dispatchNotFoundListsOnline(serverName, toolName) ==
  /\ serverName # "" /\ toolName # ""
  /\ ~hasServer(serverName)
  /\ last' = DispatchEvent(serverName, toolName, "ServiceNotFound",
                           getOnlineServerNames)
  /\ UNCHANGED <<envVars, balancerVars, httpVars, registryVars, timerVars, backendVars, calls, probes>>

\* !hasServer(serverName): rejected with SERVER_NOT_FOUND and
\* details.availableServers = getServerNames()
dispatchNotFound(serverName, toolName) ==
  /\ serverName # "" /\ toolName # ""
  /\ ~hasServer(serverName)
  /\ last' = DispatchEvent(serverName, toolName, "ServiceNotFound",
                           getServerNames)
  /\ \E header \in RequestIdHeaders :
       LET request == Request(serverName, toolName, header)
       IN response' = Rejected(request, NotFoundBody(request, getServerNames))
  /\ UNCHANGED <<envVars, balancerVars, requests, registryVars, timerVars, backendVars,
                 calls, probes>>

\* a dispatcher that rejects an offline service without the cached error
dispatchOfflineNoDetail(serverName, toolName) ==
  /\ serverName # "" /\ toolName # ""
  /\ hasServer(serverName)
  /\ ~cachedOnline(serverName)
  /\ last' = DispatchEvent(serverName, toolName, "ServiceOffline", None)
  /\ UNCHANGED <<envVars, balancerVars, httpVars, registryVars, timerVars, backendVars, calls, probes>>

\* !serverStatus?.online: rejected with SERVER_OFFLINE and
\* details = serverStatus?.error
dispatchOffline(serverName, toolName) ==
  /\ serverName # "" /\ toolName # ""
  /\ hasServer(serverName)
  /\ ~cachedOnline(serverName)
  /\ last' = DispatchEvent(serverName, toolName, "ServiceOffline",
                           IF getServerStatus(serverName) = None THEN None
                           ELSE getServerStatus(serverName)[1].error)
  /\ \E header \in RequestIdHeaders :
       LET request == Request(serverName, toolName, header)
       IN response' =
            Rejected(request,
                     OfflineBody(request,
                                 IF getServerStatus(serverName) = None THEN None
                                 ELSE getServerStatus(serverName)[1].error))
  /\ UNCHANGED <<envVars, balancerVars, requests, registryVars, timerVars, backendVars,
                 calls, probes>>

\* all checks pass: gatewayService.executeTool runs up to its first await,
\* where the controller is suspended too; when the registry throws before
\* that, the controller's catch block answers with EXECUTION_ERROR
dispatchExecute(serverName, toolName, params) ==
  /\ serverName # "" /\ toolName # ""
  /\ dispatchAccepts(serverName)
  /\ \E header \in RequestIdHeaders :
       LET request == Request(serverName, toolName, header)
       IN \/ /\ executeToolInvoke(serverName, toolName, params)
             /\ requests' = AddTo(requests, request)
             /\ UNCHANGED response
          \/ /\ executeToolOffline(serverName)
             /\ response' = Rejected(request, ExecutionBody(request, MsgUnavailable))
             /\ UNCHANGED requests

\* the controller resumed with the result of gatewayService.executeTool.
\* A suspended controller frame is matched to the registry call by service
\* name, which is exact while the calls on one service run one at a time.
dispatchReturn(f) ==
  /\ executeToolReturn(f)
  /\ \E request \in BagToSet(requests) :
       /\ request.serverName = f.serverName
       /\ requests' = RemoveFrom(requests, request)
       /\ response' = Sent(request, SuccessResponse(request))

\* the controller resumed with the error gatewayService.executeTool threw:
\* its catch block wraps the message in InternalServerErrorException
dispatchCatch(f) ==
  /\ executeToolCatch(f)
  /\ \E request \in BagToSet(requests) :
       /\ request.serverName = f.serverName
       /\ requests' = RemoveFrom(requests, request)
       /\ response' = Rejected(request, ExecutionBody(request, f.error[1]))

(* ------------------------------ express gateway ---------------------- *)
(* MCPGateway: the middleware chain of setupMiddleware in front of the      *)
(* route POST /api/mcp/:serverName/:toolName, and the global errorHandler.  *)
(* A response is sent once: res.json on a response that was already sent    *)
(* throws and sends nothing.                                                *)

\* the service names of the express deployment and their backends
ExpressDeployment == {<<"svc-a", "h1">>, <<"api-x", "h2">>}
ExpressNames == {d[1] : d \in ExpressDeployment}

\* the x-api-key header of a request: absent, the configured key, another key
ApiKeyHeaders == {None, Some("key-1"), Some("key-2")}

\* request bodies: text that express.json() cannot parse, JSON that the Joi
\* schema rejects (gender: 'x'), JSON the schema accepts and validateBaziParams
\* rejects (no birthDate), and JSON both accept
ExpressBodies == {"unparseable", "malformed", "invalid", "valid"}

MsgApiKey == "API key invalid"
MsgValidation == "request parameter validation failed"
MsgGender == "gender must be one of [male, female]"
MsgInternalServer == "internal server error"
MsgSyntax == "Unexpected token in JSON"

\* the characters of the names that occur in request paths
Chars(s) ==
  CASE s = "svc-a" -> <<"s", "v", "c", "-", "a">>
    [] s = "api-x" -> <<"a", "p", "i", "-", "x">>
    [] s = "getBaziDetail" ->
         <<"g", "e", "t", "B", "a", "z", "i", "D", "e", "t", "a", "i", "l">>
    [] s = "noSuchTool" -> <<"n", "o", "S", "u", "c", "h", "T", "o", "o", "l">>
    [] s = "/health" -> <<"/", "h", "e", "a", "l", "t", "h">>
    [] s = "/api" -> <<"/", "a", "p", "i">>

\* String.prototype.startsWith on character sequences
startsWith(s, prefix) ==
  /\ Len(s) >= Len(prefix)
  /\ SubSeq(s, 1, Len(prefix)) = prefix

\* a POST as express receives it
ExpressRequest(serverName, toolName, header, apiKey, body) ==
  [serverName |-> serverName, toolName |-> toolName, requestIdHeader |-> header,
   apiKey |-> apiKey, body |-> body]

\* req.path inside a middleware mounted at /api/mcp: the mount point is
\* stripped
mountedPath(request) ==
  <<"/">> \o Chars(request.serverName) \o <<"/">> \o Chars(request.toolName)

\* a JavaScript Error: its message and its stack
JsError(message) ==
  [message |-> message, stack |-> <<"Error", message, "at node_modules">>]

\* what a middleware did: the response it sent, if any, and whether it
\* called next()
Handled(sent, next) == [sent |-> sent, next |-> next]

\* req.headers['x-request-id'] || 'unknown'
headerOrUnknown(header) == IF header = None THEN UnknownId ELSE header[1]

\* an errorHandler that puts details and stack in every response
errorHandlerVerbose(error, header) ==
  [status |-> 500,
   success |-> FALSE,
   error |-> [code |-> "INTERNAL_SERVER_ERROR", message |-> MsgInternalServer,
              details |-> error.message, stack |-> error.stack],
   meta |-> [requestId |-> headerOrUnknown(header)]]

\* errorHandler: details and stack are added when NODE_ENV is development
errorHandler(error, header) ==
  [status |-> 500,
   success |-> FALSE,
   error |-> IF env.nodeEnv = "development"
               THEN [code |-> "INTERNAL_SERVER_ERROR", message |-> MsgInternalServer,
                     details |-> error.message, stack |-> error.stack]
               ELSE [code |-> "INTERNAL_SERVER_ERROR", message |-> MsgInternalServer],
   meta |-> [requestId |-> headerOrUnknown(header)]]

\* the paths authMiddleware lets through without a key
skipAuthPaths == {"/health", "/api"}

\* authMiddleware with API_SECRET unset
authMiddleware(request) ==
  IF \E path \in skipAuthPaths : startsWith(mountedPath(request), Chars(path))
    THEN Handled(None, TRUE)
  ELSE IF env.apiKey = None
    THEN Handled(None, TRUE)
  ELSE IF request.apiKey # env.apiKey
    THEN Handled(Some([status |-> 401,
                       success |-> FALSE,
                       error |-> [code |-> "INVALID_API_KEY", message |-> MsgApiKey]]),
                 FALSE)
  ELSE Handled(None, TRUE)

\* validateRequest for a POST: a body the schema rejects is answered with
\* 400, and next() is called after the if in either case
validateRequest(request) ==
  IF request.body = "malformed"
    THEN Handled(Some([status |-> 400,
                       success |-> FALSE,
                       error |-> [code |-> "VALIDATION_ERROR",
                                  message |-> MsgValidation,
                                  details |-> <<[field |-> "gender",
                                                 message |-> MsgGender]>>],
                       meta |-> [requestId |->
                                   headerOrUnknown(request.requestIdHeader)]]),
                 TRUE)
  ELSE Handled(None, TRUE)

\* the meta of the responses of the route; the request-id middleware has set
\* the header to header || uuidv4() before the route runs
routeMeta(request) ==
  [requestId |-> requestIdOf(request.requestIdHeader),
   serverName |-> request.serverName,
   toolName |-> request.toolName]

\* the error responses of the route
routeError(request, status, error) ==
  [status |-> status, success |-> FALSE, error |-> error, meta |-> routeMeta(request)]

\* res.json(wire) for a request that may have been answered before: the
\* first response stands
sendOnce(request, sent, wire) ==
  Sent(request, IF sent = None THEN wire ELSE sent[1])

\* the params the backend sees for a body
paramsOf(body) == IF body = "valid" THEN "valid" ELSE "invalid"

\* a suspended route handler: the request and whether it has been answered
RouteFrame(request, sent) == [request |-> request, sent |-> sent]

\* process start: the environment the process runs in
bootstrap(e) ==
  /\ last.op = "construct"
  /\ env' = e
  /\ last' = Event("bootstrap", "", "ok", <<>>, FALSE)
  /\ UNCHANGED <<balancerVars, httpVars, registryVars, timerVars, backendVars,
                 calls, probes>>

\* one POST /api/mcp/:serverName/:toolName, from the first middleware to the
\* first await of the route
expressPost(request) ==
  IF request.body = "unparseable"
    THEN \* express.json() fails: the error goes to errorHandler
         /\ response' = Sent(request, errorHandler(JsError(MsgSyntax),
                                                   request.requestIdHeader))
         /\ last' = Event("errorHandler", request.serverName, "InternalError",
                          <<>>, FALSE)
         /\ UNCHANGED <<envVars, balancerVars, requests, registryVars, timerVars,
                        backendVars, calls, probes>>
  ELSE IF ~authMiddleware(request).next
    THEN /\ response' = Sent(request, authMiddleware(request).sent[1])
         /\ last' = Event("authMiddleware", request.serverName, "Unauthorized",
                          <<>>, FALSE)
         /\ UNCHANGED <<envVars, balancerVars, requests, registryVars, timerVars,
                        backendVars, calls, probes>>
  ELSE IF ~validateRequest(request).next
    THEN /\ response' = Sent(request, validateRequest(request).sent[1])
         /\ last' = Event("validateRequest", request.serverName, "ValidationError",
                          <<>>, FALSE)
         /\ UNCHANGED <<envVars, balancerVars, requests, registryVars, timerVars,
                        backendVars, calls, probes>>
  ELSE LET sent == validateRequest(request).sent
           serverName == request.serverName
           toolName == request.toolName
       IN IF ~hasServer(serverName)
            THEN /\ response' =
                      sendOnce(request, sent,
                        routeError(request, 404,
                          [code |-> "SERVER_NOT_FOUND", message |-> MsgNotFound,
                           details |-> getServerNames]))
                 /\ last' = DispatchEvent(serverName, toolName, "ServiceNotFound",
                                          getServerNames)
                 /\ UNCHANGED <<envVars, balancerVars, requests, registryVars,
                                timerVars, backendVars, calls, probes>>
          ELSE IF ~cachedOnline(serverName)
            THEN /\ response' =
                      sendOnce(request, sent,
                        routeError(request, 503,
                          [code |-> "SERVER_OFFLINE", message |-> MsgServerOffline,
                           details |-> getServerStatus(serverName)[1].error]))
                 /\ last' = DispatchEvent(serverName, toolName, "ServiceOffline",
                                          getServerStatus(serverName)[1].error)
                 /\ UNCHANGED <<envVars, balancerVars, requests, registryVars,
                                timerVars, backendVars, calls, probes>>
          ELSE \/ /\ executeToolInvoke(serverName, toolName, paramsOf(request.body))
                  /\ requests' = AddTo(requests, RouteFrame(request, sent))
                  /\ response' = IF sent = None THEN response
                                 ELSE Sent(request, sent[1])
                  /\ UNCHANGED envVars
               \/ /\ executeToolOffline(serverName)
                  /\ response' =
                       sendOnce(request, sent,
                         routeError(request, 500,
                           [code |-> "EXECUTION_ERROR",
                            message |-> JsError(MsgUnavailable).message]))
                  /\ UNCHANGED <<envVars, requests>>

\* the route resumed with the result of serverRegistry.executeTool
expressReturn(f) ==
  /\ executeToolReturn(f)
  /\ \E frame \in BagToSet(requests) :
       /\ frame.request.serverName = f.serverName
       /\ requests' = RemoveFrom(requests, frame)
       /\ response' =
            IF frame.sent = None
              THEN Sent(frame.request,
                        [status |-> 200, success |-> TRUE, data |-> "result",
                         meta |-> routeMeta(frame.request)])
              ELSE response
  /\ UNCHANGED envVars

\* the route resumed with the error serverRegistry.executeTool threw: its
\* catch block answers with the error's message
expressCatch(f) ==
  /\ executeToolCatch(f)
  /\ \E frame \in BagToSet(requests) :
       /\ frame.request.serverName = f.serverName
       /\ requests' = RemoveFrom(requests, frame)
       /\ response' =
            IF frame.sent = None
              THEN Sent(frame.request,
                        routeError(frame.request, 500,
                          [code |-> "EXECUTION_ERROR",
                           message |-> JsError(f.error[1]).message]))
              ELSE response
  /\ UNCHANGED envVars

(* ------------------------------ specifications ----------------------- *)
(* The program is explored in families.  Each family takes the actions it   *)
(* needs from the ones above and draws their inputs from the sets named in  *)
(* it; the bounds are guards of the family, not of the code.                *)

Settle == \E f \in BagToSet(calls) : backendSettle(f)

Return ==
  /\ \E f \in BagToSet(calls) : executeToolReturn(f)
  /\ UNCHANGED httpVars

Catch ==
  /\ \E f \in BagToSet(calls) : executeToolCatch(f)
  /\ UNCHANGED httpVars

RoomForCall ==
  /\ RequestsAccepted < MaxRequests
  /\ InFlight(calls) < MaxInFlight

(* SpecCalls: concurrent executeTool calls on one service name while the    *)
(* name is registered, re-registered with another backend and unregistered. *)
(* The backends are BaziServer objects: their own status is always online.  *)
CallsRegister == \E server \in Handles : register("svc-a", server)

CallsUnregister == unregister("svc-a")

CallsNotFound == executeToolNotFound("svc-a")

CallsInvoke ==
  /\ RoomForCall
  /\ \E r \in RequestInputs : executeToolInvoke("svc-a", r[1], r[2])
  /\ UNCHANGED httpVars

NextCalls ==
  \/ CallsRegister
  \/ CallsUnregister
  \/ CallsNotFound
  \/ CallsInvoke
  \/ Settle
  \/ Return
  \/ Catch

SpecCalls == Init /\ [][NextCalls]_vars

(* SpecFlaky: concurrent calls on one service whose backend switches its    *)
(* own status between online and offline (any IMCPServer may).              *)
FlakyRegister == register("svc-a", "h1")

FlakyUnregister == unregister("svc-a")

FlakyNotFound == executeToolNotFound("svc-a")

FlakyOffline ==
  /\ executeToolOffline("svc-a")
  /\ UNCHANGED httpVars

FlakyInvoke ==
  /\ RoomForCall
  /\ \E r \in RequestInputs : executeToolInvoke("svc-a", r[1], r[2])
  /\ UNCHANGED httpVars

FlakyStatusChange == backendStatusChange("h1")

NextFlaky ==
  \/ FlakyRegister
  \/ FlakyUnregister
  \/ FlakyNotFound
  \/ FlakyOffline
  \/ FlakyInvoke
  \/ Settle
  \/ Return
  \/ Catch
  \/ FlakyStatusChange

SpecFlaky == Init /\ [][NextFlaky]_vars

(* SpecRegistry: the synchronous registry operations on two names and two   *)
(* backends; no call is ever in flight.                                     *)
Register == \E name \in Names, server \in Handles : register(name, server)

Unregister == \E name \in Names : unregister(name)

NotFound == \E name \in Names : executeToolNotFound(name)

Offline ==
  /\ \E name \in Names : executeToolOffline(name)
  /\ UNCHANGED httpVars

StatusChange == \E h \in Handles : backendStatusChange(h)

NextRegistry ==
  \/ Register
  \/ Unregister
  \/ NotFound
  \/ Offline
  \/ StatusChange

SpecRegistry == Init /\ [][NextRegistry]_vars

(* Spec: two services, each with its own BaziServer backend; calls run one  *)
(* at a time and interleave with health probes, registrations and           *)
(* unregistrations.                                                         *)
Deployment == {<<"svc-a", "h1">>, <<"svc-b", "h2">>}

Deploy == \E d \in Deployment : register(d[1], d[2])

Invoke ==
  /\ RequestsAccepted < HealthMaxRequests
  /\ calls = EmptyBag
  /\ \E name \in Names, r \in RequestInputs : executeToolInvoke(name, r[1], r[2])
  /\ UNCHANGED httpVars

Tick ==
  /\ InFlight(probes) + Len(servers) <= MaxProbes
  /\ performHealthCheck

ProbeSettle ==
  \E p \in BagToSet(probes), outcome \in ProbeOutcomes : probeSettle(p, outcome)

Next ==
  \/ Deploy
  \/ Unregister
  \/ Invoke
  \/ Settle
  \/ Return
  \/ Catch
  \/ Tick
  \/ ProbeSettle

Spec == Init /\ [][Next]_vars

(* SpecHappy: the scenario of a fresh backend registered once per name and  *)
(* then called sequentially with requests that succeed.                     *)
HappyRegister ==
  \E d \in Deployment : ~MapHas(servers, d[1]) /\ register(d[1], d[2])

HappyInvoke ==
  /\ RequestsAccepted < MaxRequests
  /\ calls = EmptyBag
  /\ \E name \in Names, t \in Tools : executeToolInvoke(name, t, "valid")
  /\ UNCHANGED httpVars

NextHappy ==
  \/ HappyRegister
  \/ HappyInvoke
  \/ Settle
  \/ Return

SpecHappy == Init /\ [][NextHappy]_vars

(* SpecLive: one service on a BaziServer backend, whose healthCheck always  *)
(* returns true; calls run one at a time, the timer is never stopped, and   *)
(* the timer and the pending probes are scheduled fairly.                   *)
LiveRegister == ~hasServer("svc-a") /\ register("svc-a", "h1")

LiveInvoke ==
  /\ RequestsAccepted < MaxRequests
  /\ calls = EmptyBag
  /\ \E r \in RequestInputs : executeToolInvoke("svc-a", r[1], r[2])
  /\ UNCHANGED httpVars

LiveTick ==
  /\ InFlight(probes) + Len(servers) <= MaxProbes
  /\ performHealthCheck

LiveProbeSettle == \E p \in BagToSet(probes) : probeSettle(p, "healthy")

NextLive ==
  \/ LiveRegister
  \/ LiveInvoke
  \/ Settle
  \/ Return
  \/ Catch
  \/ LiveTick
  \/ LiveProbeSettle

SpecLive ==
  /\ Init
  /\ [][NextLive]_vars
  /\ WF_vars(LiveTick)
  /\ WF_vars(LiveProbeSettle)

(* SpecTimer: the health-check timer over two services, with probes of     *)
(* every outcome, until the registry is told to stop.                       *)
TimerStop == stopHealthCheck

NextTimer ==
  \/ Deploy
  \/ Unregister
  \/ Tick
  \/ ProbeSettle
  \/ TimerStop

SpecTimer == Init /\ [][NextTimer]_vars

(* SpecBalancer: selections over every candidate array while the backends  *)
(* change the online flag and the load they report and the strategy is      *)
(* switched.                                                                *)
Select ==
  /\ roundRobinIndex < MaxCursor
  /\ \E candidates \in CandidateLists : selectServer(candidates)

SetStrategy == \E s \in Strategies : setStrategy(s)

LoadChange == \E h \in Handles, n \in LoadLevels : backendLoadChange(h, n)

NextBalancer ==
  \/ Select
  \/ SetStrategy
  \/ StatusChange
  \/ LoadChange

SpecBalancer == Init /\ [][NextBalancer]_vars

(* SpecDispatch: requests arrive through the dispatcher, with names, empty  *)
(* names and the name of a service that is never registered (svc-b); the    *)
(* calls it lets through run one at a time; the h1 backend of svc-a may     *)
(* turn its own status off.                                                 *)
DispatchRegister == register("svc-a", "h1")

DispatchUnregister == unregister("svc-a")

DispatchInvalid ==
  \E serverName \in DispatchNames, toolName \in DispatchTools :
    dispatchInvalid(serverName, toolName)

DispatchNotFound ==
  \E serverName \in DispatchNames, toolName \in DispatchTools :
    dispatchNotFound(serverName, toolName)

DispatchOffline ==
  \E serverName \in DispatchNames, toolName \in DispatchTools :
    dispatchOffline(serverName, toolName)

DispatchExecute ==
  /\ RequestsAccepted < HealthMaxRequests
  /\ calls = EmptyBag
  /\ \E serverName \in DispatchNames, toolName \in DispatchTools,
        params \in ParamInputs :
       dispatchExecute(serverName, toolName, params)

DispatchStatusChange == backendStatusChange("h1")

DispatchReturn == \E f \in BagToSet(calls) : dispatchReturn(f)

DispatchCatch == \E f \in BagToSet(calls) : dispatchCatch(f)

NextDispatch ==
  \/ DispatchRegister
  \/ DispatchUnregister
  \/ DispatchInvalid
  \/ DispatchNotFound
  \/ DispatchOffline
  \/ DispatchExecute
  \/ Settle
  \/ DispatchReturn
  \/ DispatchCatch
  \/ DispatchStatusChange

SpecDispatch == Init /\ [][NextDispatch]_vars

(* ---------------------- registry reads, as operations ----------------- *)
\* the length of the tools array of a BaziServer
ToolCount == 4

\* ServerRegistryService.getAvailableServers: the names of the servers map
\* whose backend object reports online in its own getStatus()
getAvailableServers ==
  SelectSeq(MapKeys(servers), LAMBDA n : getStatus(MapGet(servers, n)).online)

\* the reduce of getStats: server.tools.length summed over the servers map
RECURSIVE SumTools(_)
SumTools(entries) ==
  IF entries = <<>> THEN 0 ELSE ToolCount + SumTools(Tail(entries))

\* ServerRegistryService.getStats
getStats ==
  LET onlineCount == Len(SelectSeq(serverStatuses, LAMBDA e : e[2].online))
      totalTools == SumTools(servers)
  IN [totalServers |-> Len(servers),
      onlineServers |-> onlineCount,
      offlineServers |-> Len(servers) - onlineCount,
      totalTools |-> totalTools]

\* a caller reads getAvailableServers()
readAvailableServers ==
  /\ last' = Event("getAvailableServers", "", "ok", getAvailableServers, FALSE)
  /\ UNCHANGED <<envVars, balancerVars, httpVars, registryVars, timerVars, backendVars,
                 calls, probes>>

\* a caller reads getStats()
readStats ==
  /\ last' = Event("getStats", "", "ok", getStats, FALSE)
  /\ UNCHANGED <<envVars, balancerVars, httpVars, registryVars, timerVars, backendVars,
                 calls, probes>>

\* a status lookup that asks the backend and refreshes the cache
readServerStatusRefreshing(name) ==
  /\ IF MapHas(servers, name)
       THEN /\ serverStatuses' =
                 updateServerStatus(name, getStatus(MapGet(servers, name)))
            /\ last' = Event("getServerStatus", name, "ok",
                             Some(getStatus(MapGet(servers, name))), FALSE)
       ELSE /\ UNCHANGED serverStatuses
            /\ last' = Event("getServerStatus", name, "ok", None, FALSE)
  /\ UNCHANGED <<envVars, balancerVars, httpVars, servers, timerVars, backendVars,
                 calls, probes>>

\* a caller reads getServerStatus(name)
readServerStatus(name) ==
  /\ last' = Event("getServerStatus", name, "ok", getServerStatus(name), FALSE)
  /\ UNCHANGED <<envVars, balancerVars, httpVars, registryVars, timerVars, backendVars,
                 calls, probes>>

(* SpecReads: the registry's read operations between registrations and     *)
(* sequential calls on two names and two backends.                          *)
ReadsRegister == \E name \in Names, server \in Handles : register(name, server)

ReadsUnregister == \E name \in Names : unregister(name)

ReadsInvoke ==
  /\ RequestsAccepted < HealthMaxRequests
  /\ calls = EmptyBag
  /\ \E name \in Names, r \in RequestInputs : executeToolInvoke(name, r[1], r[2])
  /\ UNCHANGED httpVars

ReadAvailableServers == readAvailableServers

ReadStats == readStats

ReadServerStatus == \E name \in Names : readServerStatus(name)

NextReads ==
  \/ ReadsRegister
  \/ ReadsUnregister
  \/ ReadsInvoke
  \/ Settle
  \/ Return
  \/ Catch
  \/ ReadAvailableServers
  \/ ReadStats
  \/ ReadServerStatus

SpecReads == Init /\ [][NextReads]_vars

(* SpecHang: two services, of which the backend of svc-a has a healthCheck  *)
(* that never returns; the probes of svc-b return with every outcome.  The  *)
(* timer and the probes that can return are scheduled fairly.               *)
HangTick ==
  /\ InFlight(probes) + Len(servers) <= HangMaxProbes
  /\ performHealthCheck

HangProbeSettle ==
  \E p \in BagToSet(probes), outcome \in ProbeOutcomes :
    /\ p.server # "h1"
    /\ probeSettle(p, outcome)

NextHang ==
  \/ HappyRegister
  \/ HangTick
  \/ HangProbeSettle

SpecHang ==
  /\ Init
  /\ [][NextHang]_vars
  /\ WF_vars(HangTick)
  /\ WF_vars(HangProbeSettle)

(* SpecExpress: the express gateway started in every environment, with two *)
(* services deployed; requests of every shape arrive one call at a time.    *)
ExpressBootstrap == \E e \in Envs : bootstrap(e)

ExpressRegister ==
  \E d \in ExpressDeployment : ~MapHas(servers, d[1]) /\ register(d[1], d[2])

ExpressPost ==
  /\ RequestsAccepted < HealthMaxRequests
  /\ calls = EmptyBag
  /\ \E serverName \in ExpressNames, toolName \in Tools,
        header \in RequestIdHeaders, apiKey \in ApiKeyHeaders,
        body \in ExpressBodies :
       expressPost(ExpressRequest(serverName, toolName, header, apiKey, body))

ExpressReturn == \E f \in BagToSet(calls) : expressReturn(f)

ExpressCatch == \E f \in BagToSet(calls) : expressCatch(f)

NextExpress ==
  \/ ExpressBootstrap
  \/ ExpressRegister
  \/ ExpressPost
  \/ Settle
  \/ ExpressReturn
  \/ ExpressCatch

SpecExpress == Init /\ [][NextExpress]_vars

(* ------------------------------ properties ---------------------------- *)
\* the cached status of name: what getServerStatus(name) returns when not null
statusOf(name) == MapGet(serverStatuses, name)

\* executeTool frames in flight for a service name / inside a backend
CallsOn(name) ==
  InFlight([f \in {g \in BagToSet(calls) : g.serverName = name} |-> calls[f]])

CallsInside(h) ==
  InFlight([f \in {g \in BagToSet(calls) : g.server = h /\ g.phase = "running"}
              |-> calls[f]])

\* the last segment made an executeTool call fail (at once, or on resumption)
CallFailed ==
  /\ last.op \in {"executeTool", "executeToolDone"}
  /\ last.outcome = "failed"

\* C1: in every reachable state, with calls in flight while the name is
\* registered and unregistered, a name has a handle entry exactly when it has
\* a status entry.
C1_SameKeys ==
  \A name \in Names : MapHas(servers, name) <=> MapHas(serverStatuses, name)

\* C2: after every register and every unregister call of a sequence with no
\* execution in flight, the two maps have the same set of names.
C2_KeySetsEqualAfterRegistration ==
  last.op \in {"register", "unregister"}
    => MapKeySet(servers) = MapKeySet(serverStatuses)

C2_Witness ==
  /\ last.op = "unregister"
  /\ last.outcome = "removed"
  /\ MapKeySet(servers) = {"svc-b"}
  /\ MapKeySet(serverStatuses) = {"svc-b"}

\* C3: when an executeTool call on a registered service whose cached status
\* was online on entry fails, the cached status right after the failure is
\* offline and carries a non-empty error string.
C3_FailureMarksOffline ==
  (CallFailed /\ last.wasOnline)
    => /\ getServerStatus(last.name) # None
       /\ ~statusOf(last.name).online
       /\ statusOf(last.name).error # None
       /\ statusOf(last.name).error[1] # ""

C3_Witness ==
  /\ CallFailed
  /\ last.wasOnline
  /\ last.detail = <<MsgBadParams>>
  /\ MapHas(servers, last.name)
  /\ ~statusOf(last.name).online

\* the cached status of name is offline with the message of a failed execution
FailedOffline(name) ==
  /\ MapHas(serverStatuses, name)
  /\ ~statusOf(name).online
  /\ statusOf(name).error \in {Some(MsgToolMissing), Some(MsgBadParams)}

\* the segment just taken is a healthy probe of name or a successful call on it
Recovery(name) ==
  /\ last'.name = name
  /\ \/ last'.op = "probe" /\ last'.outcome = "healthy"
     \/ last'.op = "executeToolDone" /\ last'.outcome = "ok"

\* C4 as stated: a cached status that an execution failure turned offline
\* comes back online only by a healthy probe of the service or a successful
\* call on it.
C4_OnlyProbeOrSuccessRecovers ==
  [][\A name \in Names :
       (FailedOffline(name) /\ cachedOnline(name)') => Recovery(name)]_vars

\* C4 as amended: ... or by registering the name again; no other event
\* (calls and probes of the other service, an unregistration, a probe that
\* fails) brings it back online.
C4_OnlyProbeSuccessOrRegisterRecovers ==
  [][\A name \in Names :
       (FailedOffline(name) /\ cachedOnline(name)')
         => \/ Recovery(name)
            \/ last'.op = "register" /\ last'.name = name]_vars

C4_Witness ==
  /\ FailedOffline("svc-a")
  /\ last.op = "probe"
  /\ last.name = "svc-b"
  /\ last.outcome = "healthy"
  /\ cachedOnline("svc-b")

\* C5: executeTool never invokes the backend of a service whose cached status
\* is offline on entry.
C5_OfflineNeverInvoked ==
  (last.op = "executeTool" /\ last.outcome = "invoked") => last.wasOnline

\* C6: executeTool on a name that is not registered fails with ServiceNotFound,
\* the message lists exactly the registered names, no backend is invoked and
\* neither map changes.
C6_NotFoundListsNames ==
  [][\A name \in Names :
       (last'.op = "executeTool" /\ last'.name = name /\ ~MapHas(servers, name))
         => /\ last'.outcome = "ServiceNotFound"
            /\ last'.detail = MapKeys(servers)
            /\ UNCHANGED <<servers, serverStatuses, backendVars, calls>>]_vars

C6_Witness ==
  /\ last.op = "executeTool"
  /\ last.outcome = "ServiceNotFound"
  /\ last.name = "svc-b"
  /\ last.detail = <<"svc-a">>

\* C7: every call increments activeRequests of its backend once on entry and
\* decrements it exactly once on exit, whether the backend returns or raises:
\* the counter always equals the number of calls inside the backend, so it is
\* back at its earlier value when a call has ended.
C7_ActivePaired ==
  \A h \in Handles : hActiveRequests[h] = CallsInside(h)

C7_Witness ==
  \E f \in BagToSet(calls) :
    /\ f.phase = "rejected"
    /\ f.error = Some(MsgBadParams)
    /\ hActiveRequests[f.server] = 1
    /\ hTotalRequests[f.server] = 2

\* C8: whenever no executeTool call on a registered service is in flight, the
\* activeRequests of its cached status is 0.
C8_IdleMeansZeroActive ==
  \A name \in Names :
    (MapHas(servers, name) /\ CallsOn(name) = 0)
      => statusOf(name).load.activeRequests = 0

\* C9: while a service stays registered, the totalRequests of its cached
\* status never decreases from one state to the next.
C9_TotalNeverDecreases ==
  [][\A name \in Names :
       (/\ MapHas(servers, name)
        /\ MapHas(servers', name)
        /\ last'.op \notin {"register", "unregister"})
         => statusOf(name)'.load.totalRequests >= statusOf(name).load.totalRequests]_vars

\* C10: after registering an online service and completing k successful
\* sequential calls on it, its cached status is online and reports
\* totalRequests = k.  (Here every call succeeds and each backend serves one
\* name, so k is the backend's own totalRequests once the call has ended.)
C10_TotalCountsCalls ==
  \A name \in Names :
    (MapHas(servers, name) /\ CallsOn(name) = 0)
      => /\ statusOf(name).online
         /\ statusOf(name).load.totalRequests = hTotalRequests[MapGet(servers, name)]

\* the tick just taken started a probe of every entry of the servers map
TickProbesAll ==
  last'.op = "tick" =>
    \A i \in 1..Len(servers) :
      CopiesIn(Probe(servers[i][1], servers[i][2]), probes')
        > CopiesIn(Probe(servers[i][1], servers[i][2]), probes)

\* the probe of name just completed stored its own outcome and touched no
\* other name
ProbeStoresOwnOutcome(name) ==
  /\ MapHas(serverStatuses', name)
  /\ statusOf(name)'.online = (last'.outcome = "healthy")
  /\ \A other \in Names \ {name} :
       /\ MapHas(serverStatuses', other) = MapHas(serverStatuses, other)
       /\ MapHas(serverStatuses, other) => statusOf(other)' = statusOf(other)

C12_ProbeOutcomeStored ==
  [][\A name \in Names :
       (last'.op = "probe" /\ last'.name = name /\ MapHas(servers, name))
         => /\ MapHas(serverStatuses, name)
            /\ statusOf(name)'.online = (last'.outcome = "healthy")
            /\ last'.outcome = "healthy" => statusOf(name)'.error = None
            /\ last'.outcome = "unhealthy"
                 => statusOf(name)'.error = Some(MsgProbeFailed)
            /\ last'.outcome = "raised"
                 => statusOf(name)'.error = Some(MsgProbeRaised)
            /\ statusOf(name)'.load = statusOf(name).load
            /\ statusOf(name)'.responseTime = statusOf(name).responseTime]_vars

C12_Witness ==
  /\ last.op = "probe"
  /\ last.outcome = "unhealthy"
  /\ MapHas(servers, last.name)
  /\ statusOf(last.name).error = Some(MsgProbeFailed)
  /\ statusOf(last.name).responseTime # None
  /\ ~statusOf(last.name).online

\* C13: a registered service that an execution failure left cached offline
\* is eventually cached online again, so that the dispatcher accepts requests
\* for it, when its probes return healthy and the timer and the pending
\* probes are scheduled fairly.
C13_FailedServiceRecovers ==
  \A name \in Names :
    (hasServer(name) /\ FailedOffline(name)) ~> dispatchAccepts(name)

C13_Witness ==
  /\ last.op = "probe"
  /\ last.name = "svc-a"
  /\ last.outcome = "healthy"
  /\ dispatchAccepts("svc-a")
  /\ statusOf("svc-a").load.totalRequests > 0
  /\ statusOf("svc-a").responseTime = None

\* C14: while the timer is armed a tick can start, whatever the probes so far
\* returned; the timer is disarmed by stopHealthCheck only; and once it is
\* disarmed it stays so and no tick starts.
C14_LoopStopsOnlyWhenStopped ==
  [][/\ healthCheckInterval => ENABLED performHealthCheck
     /\ (healthCheckInterval /\ ~healthCheckInterval')
          => last'.op = "stopHealthCheck"
     /\ ~healthCheckInterval
          => ~healthCheckInterval' /\ last'.op # "tick"]_vars

C14_Witness ==
  /\ last.op = "tick"
  /\ MapHas(serverStatuses, "svc-a")
  /\ MapHas(serverStatuses, "svc-b")
  /\ statusOf("svc-a").error = Some(MsgProbeRaised)
  /\ statusOf("svc-b").error = Some(MsgProbeFailed)

\* the candidates, and the server, of the selection that has just been made
selectedFrom == last.detail[1]
selected == last.detail[2][Len(last.detail[2])]

\* the candidates that report online now, in input order
onlineOf(candidates) ==
  SelectSeq(candidates, LAMBDA server : hStatus[server].online)

\* C15: selectServer fails with NoAvailableInstance exactly when no candidate
\* reports online (the empty array included); the message of that failure is
\* not the registry's not-found message; otherwise, under each strategy, the
\* result is a candidate that reports online.
C15_SelectOnlineOrFail ==
  last.op = "selectServer" =>
    /\ (last.outcome = "NoAvailableInstance") = (onlineOf(selectedFrom) = <<>>)
    /\ last.outcome = "NoAvailableInstance"
         => /\ last.detail[2] \in {MsgNoInstances, MsgNoneOnline}
            /\ last.detail[2] # MsgNotFound
    /\ last.outcome # "NoAvailableInstance"
         => /\ last.outcome = "ok"
            /\ \E i \in 1..Len(selectedFrom) :
                 selectedFrom[i] = selected /\ hStatus[selected].online

C15_Witness ==
  /\ last.op = "selectServer"
  /\ last.outcome = "ok"
  /\ strategy = "random"
  /\ selectedFrom = <<"h1", "h2">>
  /\ ~hStatus["h1"].online
  /\ selected = "h2"

\* the last n entries of a sequence
LastN(s, n) == SubSeq(s, Len(s) - n + 1, Len(s))

\* C16: under round-robin, N back-to-back selections on the same candidates,
\* whose online members number N and do not change meanwhile, return every
\* online member exactly once, from whatever cursor value they start.
C16_RoundRobinPermutation ==
  (/\ last.op = "selectServer"
   /\ last.outcome = "ok"
   /\ strategy = "round_robin"
   /\ Len(last.detail[2]) >= Len(onlineOf(selectedFrom)))
    => LET N == Len(onlineOf(selectedFrom))
           run == LastN(last.detail[2], N)
       IN /\ {run[i] : i \in 1..N}
               = {onlineOf(selectedFrom)[i] : i \in 1..N}
          /\ \A i, j \in 1..N : run[i] = run[j] => i = j

C16_Witness ==
  /\ last.op = "selectServer"
  /\ last.outcome = "ok"
  /\ strategy = "round_robin"
  /\ selectedFrom = <<"h1", "h2">>
  /\ last.detail[2] = <<"h2", "h1">>
  /\ roundRobinIndex = 3

\* C17: under least-connections the result is an online candidate whose
\* activeRequests is the minimum over the online candidates, and the first
\* such candidate in input order.
C17_LeastConnectionsFirstMinimum ==
  (/\ last.op = "selectServer"
   /\ last.outcome = "ok"
   /\ strategy = "least_connections")
    => LET online == onlineOf(selectedFrom)
           active(server) == hStatus[server].load.activeRequests
       IN \E i \in 1..Len(online) :
            /\ online[i] = selected
            /\ \A j \in 1..Len(online) : active(online[i]) <= active(online[j])
            /\ \A j \in 1..(i - 1) : active(online[j]) > active(online[i])

C17_Witness ==
  /\ last.op = "selectServer"
  /\ last.outcome = "ok"
  /\ strategy = "least_connections"
  /\ selectedFrom = <<"h1", "h2">>
  /\ hStatus["h1"].online
  /\ hStatus["h1"].load.activeRequests = 3
  /\ hStatus["h2"].load.activeRequests = 1
  /\ selected = "h2"

\* C18: setStrategy puts the cursor back to 0 after any selections, and the
\* first selection after a switch to round-robin returns the first of the
\* candidates that are online then.
C18_SetStrategyResetsCursor ==
  [][/\ last'.op = "setStrategy" => roundRobinIndex' = 0
     /\ (/\ last.op = "setStrategy"
         /\ strategy = "round_robin"
         /\ last'.op = "selectServer"
         /\ last'.outcome = "ok")
          => last'.detail[2] = <<onlineOf(last'.detail[1])[1]>>]_vars

C18_Witness ==
  /\ last.op = "selectServer"
  /\ last.outcome = "ok"
  /\ strategy = "round_robin"
  /\ roundRobinIndex = 1
  /\ selectedFrom = <<"h2", "h1">>
  /\ last.detail[2] = <<"h2">>
  /\ hStatus["h1"].online

\* C19: a dispatch whose service name or tool name is empty is rejected with
\* InvalidRequest whatever the registry holds; the rejection changes neither
\* map, invokes no backend and starts no call, and no request with an empty
\* name can reach the registry's executeTool.
C19_EmptyNameRejected ==
  [][/\ (last'.op = "dispatch" /\ (last'.name = "" \/ last'.tool = ""))
          => /\ last'.outcome = "InvalidRequest"
             /\ UNCHANGED <<registryVars, backendVars, calls>>
     /\ \A serverName \in DispatchNames, toolName \in DispatchTools,
           params \in ParamInputs :
          (serverName = "" \/ toolName = "")
            => ~ENABLED dispatchExecute(serverName, toolName, params)]_vars

C19_Witness ==
  /\ last.op = "dispatch"
  /\ last.outcome = "InvalidRequest"
  /\ last.name = "svc-b"
  /\ last.tool = ""
  /\ ~hasServer("svc-b")
  /\ hasServer("svc-a")

\* C20: a dispatch with non-empty names for a service that is not registered
\* is rejected with ServiceNotFound, the detail is the list of the names
\* registered at that moment, no backend is invoked, no call starts and no
\* status entry is created or changed.
C20_UnknownServiceRejected ==
  [][/\ (/\ last'.op = "dispatch"
         /\ last'.name # ""
         /\ last'.tool # ""
         /\ ~MapHas(servers, last'.name))
          => /\ last'.outcome = "ServiceNotFound"
             /\ last'.detail = MapKeys(servers)
             /\ UNCHANGED <<registryVars, backendVars, calls>>
     /\ \A serverName \in DispatchNames, toolName \in DispatchTools,
           params \in ParamInputs :
          ~hasServer(serverName)
            => ~ENABLED dispatchExecute(serverName, toolName, params)]_vars

C20_Witness ==
  /\ last.op = "dispatch"
  /\ last.outcome = "ServiceNotFound"
  /\ last.name = "svc-b"
  /\ last.tool = "getBaziDetail"
  /\ last.detail = <<"svc-a">>
  /\ ~cachedOnline("svc-a")

\* C21: a dispatch to a registered service whose cached status is offline is
\* rejected with ServiceOffline carrying the error of the cached status; no
\* backend is invoked, no call starts and the cached status stays as it was.
C21_OfflineServiceRejected ==
  [][/\ \A name \in Names :
          (/\ last'.op = "dispatch"
           /\ last'.name = name
           /\ last'.tool # ""
           /\ hasServer(name)
           /\ ~cachedOnline(name))
            => /\ last'.outcome = "ServiceOffline"
               /\ last'.detail = statusOf(name).error
               /\ UNCHANGED <<registryVars, backendVars, calls>>
     /\ \A serverName \in DispatchNames, toolName \in DispatchTools,
           params \in ParamInputs :
          (hasServer(serverName) /\ ~cachedOnline(serverName))
            => ~ENABLED dispatchExecute(serverName, toolName, params)]_vars

C21_Witness ==
  /\ last.op = "dispatch"
  /\ last.outcome = "ServiceOffline"
  /\ last.name = "svc-a"
  /\ last.detail = Some(MsgBadParams)
  /\ hasServer("svc-a")
  /\ statusOf("svc-a").error = Some(MsgBadParams)

\* the response just sent names, in its meta, the request it answers
MetaOfRequest(sent) ==
  /\ DOMAIN sent.wire.meta = {"requestId", "serverName", "toolName"}
  /\ sent.wire.meta.requestId = requestIdOf(sent.request.requestIdHeader)
  /\ sent.wire.meta.serverName = sent.request.serverName
  /\ sent.wire.meta.toolName = sent.request.toolName

\* C22: when a dispatch has passed the name, existence and online checks and
\* the backend call raises, the response has the code EXECUTION_ERROR and
\* the backend's message, its meta names the request (request id, service,
\* tool), and the cached status of the service is offline right after.
C22_ExecutionErrorReported ==
  [][\A name \in Names :
       (/\ last'.op = "executeToolDone"
        /\ last'.outcome = "failed"
        /\ last'.name = name)
         => /\ response'.wire.status = 500
            /\ response'.wire.error.code = "EXECUTION_ERROR"
            /\ response'.wire.error.message = last'.detail[1]
            /\ MetaOfRequest(response')
            /\ ~cachedOnline(name)']_vars

\* the code the controller gives each failure kind
KindCode(kind) ==
  CASE kind = "InvalidRequest" -> "INVALID_PARAMETERS"
    [] kind = "ServiceNotFound" -> "SERVER_NOT_FOUND"
    [] kind = "ServiceOffline" -> "SERVER_OFFLINE"
    [] OTHER -> "EXECUTION_ERROR"

\* the failure kind the fixed precedence gives a request in the current state
KindByPrecedence(serverName, toolName) ==
  IF serverName = "" \/ toolName = "" THEN "InvalidRequest"
  ELSE IF ~hasServer(serverName) THEN "ServiceNotFound"
  ELSE IF ~cachedOnline(serverName) THEN "ServiceOffline"
  ELSE "ExecutionError"

\* C23: a dispatch that fails fails with the one kind the precedence
\* invalid-request, service-not-found, service-offline, execution-error
\* gives it, and the error code of the response on the wire is the code of
\* that kind.
C23_WireCodeIsKindCode ==
  [][/\ last'.op = "dispatch"
          => /\ last'.outcome = KindByPrecedence(last'.name, last'.tool)
             /\ response'.wire.error.code = KindCode(last'.outcome)
     /\ (last'.op \in {"executeTool", "executeToolDone"} /\ last'.outcome = "failed")
          => response'.wire.error.code = KindCode("ExecutionError")]_vars

\* C24: every response to a dispatch carries meta.requestId: the caller's
\* x-request-id when one was sent, otherwise the id the controller assigned
\* to the request.
C24_ResponseCarriesRequestId ==
  response # None
    => /\ "requestId" \in DOMAIN response.wire.meta
       /\ response.wire.meta.requestId
            = requestIdOf(response.request.requestIdHeader)

(* ------------------------- reads and frame effects -------------------- *)
\* the registered names whose cached status says online
cachedOnlineNames == {n \in MapKeySet(servers) : cachedOnline(n)}

\* the elements of a sequence
Range(s) == {s[i] : i \in 1..Len(s)}

\* the entry a Map holds for a key, absent or present
entryOf(m, k) == IF MapHas(m, k) THEN Some(MapGet(m, k)) ELSE None

\* a step leaves the handle entry and the status entry of a name as they were
EntryUnchanged(name) ==
  /\ entryOf(servers, name)' = entryOf(servers, name)
  /\ entryOf(serverStatuses, name)' = entryOf(serverStatuses, name)

\* C25: listAvailable() returns exactly the registered names whose cached
\* status (the one statusOf returns) is online, and changes neither map.
C25_ListAvailableIsCachedOnline ==
  [][last'.op = "getAvailableServers"
       => /\ Range(last'.detail) = cachedOnlineNames
          /\ UNCHANGED registryVars]_vars

\* C26: stats() is computed from the current maps: totalServices counts the
\* registered names, onlineServices the registered names whose cached status
\* is online, offlineServices is their difference, and totalOperations sums
\* the operation counts of the registered backends.
C26_StatsFromMaps ==
  [][last'.op = "getStats"
       => /\ last'.detail.totalServers = Cardinality(MapKeySet(servers))
          /\ last'.detail.onlineServers = Cardinality(cachedOnlineNames)
          /\ last'.detail.offlineServers =
               last'.detail.totalServers - last'.detail.onlineServers
          /\ last'.detail.totalTools = ToolCount * Cardinality(MapKeySet(servers))
          /\ UNCHANGED registryVars]_vars

\* C27: register(name, h2) on a name that is already bound succeeds, after
\* which the name is bound to h2 and its cached status is h2's status at that
\* moment; the entries of the other names are unchanged.
C27_RegisterReplaces ==
  [][\A name \in Names, h2 \in Handles :
       (MapHas(servers, name) /\ register(name, h2))
         => /\ last'.outcome = "ok"
            /\ entryOf(servers, name)' = Some(h2)
            /\ entryOf(serverStatuses, name)' = Some(getStatus(h2))
            /\ \A other \in Names \ {name} : EntryUnchanged(other)]_vars

\* a registration has just replaced the backend of a name by another one
\* that has already served a request under the other name
C27_Witness ==
  /\ last.op = "register"
  /\ last.detail # None
  /\ last.detail[1] # MapGet(servers, last.name)
  /\ MapGet(serverStatuses, last.name).load.totalRequests > 0
  /\ Len(servers) = 2

\* C28: unregister(name) removes the handle entry and the status entry of a
\* registered name and changes nothing for a name that is not registered; in
\* both cases the entries of every other name are unchanged.
C28_UnregisterFrame ==
  [][\A name \in Names :
       (last'.op = "unregister" /\ last'.name = name)
         => /\ MapHas(servers, name)
                 => /\ entryOf(servers, name)' = None
                    /\ entryOf(serverStatuses, name)' = None
            /\ ~MapHas(servers, name) => UNCHANGED registryVars
            /\ \A other \in Names \ {name} : EntryUnchanged(other)]_vars

\* a registered name has just been removed while the other name stays bound
C28_Witness ==
  /\ last.op = "unregister"
  /\ last.outcome = "removed"
  /\ ~MapHas(servers, last.name)
  /\ ~MapHas(serverStatuses, last.name)
  /\ Len(servers) = 1
  /\ Len(serverStatuses) = 1

\* C29: a successful executeTool on a registered service changes only the
\* responseTime of its cached status: the online flag, the error and the load
\* that were cached when the call completes are still there afterwards.
C29_SuccessChangesOnlyResponseTime ==
  [][\A name \in Names :
       (/\ last'.op = "executeToolDone"
        /\ last'.outcome = "ok"
        /\ last'.name = name
        /\ MapHas(servers, name)
        /\ MapHas(serverStatuses, name))
         => /\ MapGet(serverStatuses, name)'.online = MapGet(serverStatuses, name).online
            /\ MapGet(serverStatuses, name)'.error = MapGet(serverStatuses, name).error
            /\ MapGet(serverStatuses, name)'.load = MapGet(serverStatuses, name).load]_vars

\* C30: statusOf(name) returns the cached status, or the not-found
\* indicator, and changes neither map, no backend's status or counters, and
\* starts no call and no probe.
C30_StatusOfIsPureRead ==
  [][\A name \in Names :
       (last'.op = "getServerStatus" /\ last'.name = name)
         => /\ last'.detail = getServerStatus(name)
            /\ UNCHANGED <<registryVars, backendVars, calls, probes>>]_vars

\* a read has just returned a cached offline status of a service whose
\* backend itself reports online
C30_Witness ==
  /\ last.op = "getServerStatus"
  /\ last.detail # None
  /\ ~last.detail[1].online
  /\ MapHas(servers, last.name)
  /\ getStatus(MapGet(servers, last.name)).online

(* ------------------------------ cursor frame -------------------------- *)
\* C31: the round-robin cursor changes only by a round-robin selection that
\* returns a backend (by plus one) and by setStrategy (to zero); selections
\* under the other strategies and selections that fail leave it unchanged.
C31_CursorFrame ==
  [][/\ (last'.op = "selectServer" /\ last'.outcome = "ok" /\ strategy = "round_robin")
          => roundRobinIndex' = roundRobinIndex + 1
     /\ (last'.op = "selectServer" /\ last'.outcome = "ok" /\ strategy # "round_robin")
          => UNCHANGED roundRobinIndex
     /\ (last'.op = "selectServer" /\ last'.outcome # "ok")
          => UNCHANGED roundRobinIndex
     /\ last'.op = "setStrategy" => roundRobinIndex' = 0
     /\ last'.op \notin {"selectServer", "setStrategy"}
          => UNCHANGED roundRobinIndex]_vars

\* a round-robin selection has just failed with no instance online and the
\* cursor still stands where earlier selections left it
C31_Witness ==
  /\ last.op = "selectServer"
  /\ last.outcome = "NoAvailableInstance"
  /\ strategy = "round_robin"
  /\ roundRobinIndex = 2

(* ---------------------- calls across unregister/register -------------- *)
\* the step completes the suspended call f
Completed(f) ==
  /\ f \in BagToSet(calls)
  /\ calls' = RemoveFrom(calls, f)
  /\ last'.op = "executeToolDone"
  /\ last'.name = f.serverName

\* C35: a call in flight on a service that is unregistered is not aborted:
\* unregister leaves the suspended calls and the backends alone, the call
\* completes with the backend's result or failure, and a call or lookup
\* issued after the unregistration fails with ServiceNotFound.
C35_UnregisterDoesNotAbort ==
  [][/\ last'.op = "unregister" => UNCHANGED <<calls, backendVars>>
     /\ \A f \in BagToSet(calls) :
          (Completed(f) /\ ~MapHas(servers, f.serverName))
            => \/ f.phase = "resolved" /\ last'.outcome = "ok"
               \/ /\ f.phase = "rejected"
                  /\ last'.outcome = "failed"
                  /\ last'.detail = f.error
     /\ \A name \in Names :
          (last'.op = "executeTool" /\ last'.name = name /\ ~MapHas(servers, name))
            => /\ last'.outcome = "ServiceNotFound"
               /\ UNCHANGED <<calls, backendVars>>]_vars

\* a call has just returned the backend's result for a name that was
\* unregistered while the call was in flight
C35_Witness ==
  /\ last.op = "executeToolDone"
  /\ last.outcome = "ok"
  /\ last.wasOnline
  /\ ~MapHas(servers, last.name)

\* C36: a call that started against one backend never writes the cached
\* status of a name that is bound to another backend when the call completes.
C36_NoStatusAcrossReplacement ==
  [][\A f \in BagToSet(calls) :
       (/\ Completed(f)
        /\ MapHas(servers, f.serverName)
        /\ MapGet(servers, f.serverName) # f.server)
         => UNCHANGED serverStatuses]_vars

\* C37: in every state stats() reports onlineServices <= totalServices,
\* offlineServices >= 0 and onlineServices + offlineServices = totalServices.
C37_StatsConsistent ==
  /\ getStats.onlineServers <= getStats.totalServers
  /\ getStats.offlineServers >= 0
  /\ getStats.onlineServers + getStats.offlineServers = getStats.totalServers

\* C39: an executeTool call rejected because the service is offline leaves
\* the cached status of the service, which already says offline with the
\* error recorded earlier, unchanged.
C39_OfflineRejectionKeepsStatus ==
  [][\A name \in Names :
       (/\ last'.op = "executeTool"
        /\ last'.outcome = "failed"
        /\ last'.name = name
        /\ MapHas(serverStatuses, name)
        /\ ~cachedOnline(name)
        /\ MapGet(serverStatuses, name).error # None)
         => UNCHANGED serverStatuses]_vars

(* ------------------------------ hung probes --------------------------- *)
\* a probe of the backend whose healthCheck never returns is pending
HungPending == \E p \in BagToSet(probes) : p.server = "h1"

\* a probe of name is pending
ProbePending(name) == \E p \in BagToSet(probes) : p.serverName = name

\* C38: a probe that never returns blocks nothing: while it is pending the
\* timer can still start a tick, a tick still probes every registered
\* service, a probe of another service that returns still updates that
\* service's cached status, and every such probe does return and is stored.
C38_HungProbeDoesNotBlock ==
  /\ []((/\ HungPending
         /\ healthCheckInterval
         /\ InFlight(probes) + Len(servers) <= HangMaxProbes)
          => ENABLED HangTick)
  /\ [][(HungPending /\ last'.op = "tick")
          => probes' = probes (+) ProbesOf(servers)]_vars
  /\ [][\A name \in Names :
          (/\ HungPending
           /\ last'.op = "probe"
           /\ last'.name = name
           /\ MapHas(serverStatuses, name))
            => statusOf(name)' = probeStatus(statusOf(name), last'.outcome)]_vars
  /\ \A name \in Names \ {"svc-a"} :
       (HungPending /\ ProbePending(name)) ~> ~ProbePending(name)

\* two ticks have left two probes of svc-a hanging, and a probe of svc-b
\* started by the later tick has just stored an unhealthy outcome
C38_Witness ==
  /\ last.op = "probe"
  /\ last.name = "svc-b"
  /\ last.outcome = "unhealthy"
  /\ CopiesIn(Probe("svc-a", "h1"), probes) >= 2
  /\ ~ProbePending("svc-b")
  /\ ~statusOf("svc-b").online

(* ------------------------------ express pipeline ---------------------- *)
\* the segment just taken ran the route for the request that response'
\* answers: the dispatcher rejected it, or the registry did
RouteRejected ==
  \/ last'.op = "dispatch"
  \/ last'.op = "executeTool" /\ last'.outcome = "failed"

\* C32: a POST whose body fails the request-shape validation is not passed
\* on: the route never runs for it and no backend is invoked for it.
C32_MalformedNotDispatched ==
  /\ [](\A frame \in BagToSet(requests) : frame.request.body # "malformed")
  /\ [][RouteRejected => response'.request.body # "malformed"]_vars

\* an API key is configured and the request does not carry it
Unauthenticated(request) ==
  /\ env.apiKey # None
  /\ request.apiKey # env.apiKey

\* C33: with an API key configured, a request that does not carry the key
\* never reaches the route, whatever the service name and the tool name in
\* its path are, and the response it gets is the 401.
C33_UnauthenticatedNotDispatched ==
  /\ [](\A frame \in BagToSet(requests) : ~Unauthenticated(frame.request))
  /\ [][RouteRejected => ~Unauthenticated(response'.request)]_vars
  /\ []((response # None /\ Unauthenticated(response.request))
          => response.wire.status = 401)

\* C34: outside development no failure response contains a stack trace; a
\* dispatch failure carries a code and the failure message only; the global
\* error handler adds details and stack in development only.
C34_NoStackOutsideDevelopment ==
  (response # None /\ ~response.wire.success)
    => /\ env.nodeEnv # "development"
            => "stack" \notin DOMAIN response.wire.error
       /\ response.wire.error.code = "EXECUTION_ERROR"
            => /\ DOMAIN response.wire.error = {"code", "message"}
               /\ response.wire.error.message
                    \in {MsgBadParams, MsgToolMissing, MsgUnavailable}
       /\ (response.wire.error.code = "INTERNAL_SERVER_ERROR"
           /\ env.nodeEnv # "development")
            => DOMAIN response.wire.error = {"code", "message"}

\* the global error handler has answered a request in production
C34_Witness ==
  /\ response # None
  /\ env.nodeEnv = "production"
  /\ response.wire.status = 500
  /\ response.wire.error.code = "INTERNAL_SERVER_ERROR"
  /\ last.op = "errorHandler"

====
